---- MODULE Spec2Model ----
(***************************************************************************)
(* A model of bloom's git-bloom-import-upstream command                    *)
(* (src/bloom/import_upstream.py): main(), import_upstream() and the       *)
(* helpers they call, one action per statement group of the pipeline.      *)
(* External collaborators (git, vcstools, git-buildpackage, catkin_pkg)    *)
(* are modelled by the results the code distinguishes.                     *)
(***************************************************************************)
EXTENDS Integers, Sequences, FiniteSets, TLC

(***************************************************************************)
(* Bounds                                                                  *)
(***************************************************************************)
\* largest value of one numeric component of a version string
MaxVer == 1

(***************************************************************************)
(* Values                                                                  *)
(***************************************************************************)
\* Python's None
None == "None"

\* the empty string returned by get_last_tag_by_date when there is no tag
NoTag == <<>>

\* a version string "a", "a.b" or "a.b.c" is the sequence of its components
VersionStrings ==
    UNION { [1..n -> 0..MaxVer] : n \in 1..3 }

\* tags of the release repository, 'upstream/a.b.c', by their three components
TagVersions == [1..3 -> 0..MaxVer]

\* local branch names a clone of the release repository may hold
BranchNames == {"bloom", "bloom-old", "catkin", "upstream", "upstream-old"}

\* str.count(sub) > 0 on the output of 'git branch': sub occurs in some name
Matching(sub) ==
    CASE sub = "bloom"    -> {"bloom", "bloom-old"}
      [] sub = "catkin"   -> {"catkin"}
      [] sub = "upstream" -> {"upstream", "upstream-old"}
      [] OTHER            -> {}

CountPositive(branches, sub) == (branches \cap Matching(sub)) # {}

\* branches the original repository may have checked out when main starts;
\* "" is get_current_branch() finding none (a detached HEAD)
StartBranches == {"", "master", "upstream"}

(***************************************************************************)
(* distutils.version.StrictVersion                                         *)
(***************************************************************************)
\* StrictVersion.parse accepts major.minor and major.minor.patch only
WellFormed(v) == Len(v) \in {2, 3}

\* StrictVersion.parse: a missing patch component is 0
StrictVersion(v) == IF Len(v) = 2 THEN <<v[1], v[2], 0>> ELSE <<v[1], v[2], v[3]>>

\* StrictVersion._cmp on the parsed tuples
StrictLess(a, b) ==
    \/ a[1] < b[1]
    \/ a[1] = b[1] /\ a[2] < b[2]
    \/ a[1] = b[1] /\ a[2] = b[2] /\ a[3] < b[3]

StrictLeq(a, b) == StrictLess(a, b) \/ a = b

\* bloom.util.segment_version: the major, minor, patch of the new version
segment_version(v) ==
    <<v[1], IF Len(v) >= 2 THEN v[2] ELSE 0, IF Len(v) >= 3 THEN v[3] ELSE 0>>

\* bloom.util.get_versions_from_upstream_tag: the components of 'upstream/a.b.c'
get_versions_from_upstream_tag(tag) == <<tag[1], tag[2], tag[3]>>

(***************************************************************************)
(* State                                                                   *)
(***************************************************************************)
VARIABLES
    pc,              \* the statement group main/import_upstream is about to run
    args,            \* the parsed command line: --replace (the other options
                     \* are inputs of the statement groups that read them)
    current_branch,  \* main's local: the branch found before the run
    orig_head,       \* the branch checked out in the original repository
    os_cwd,          \* the process working directory: "orig" or "clone"
    tmp_dir,         \* TRUE while the temporary directory exists
    tmp_created,     \* TRUE once create_temporary_directory has run
    still_exists,    \* branch_exists(current_branch, True, cwd) at the end
    clone_branches,  \* local branch names of the clone
    clone_head,      \* the branch checked out in the clone
    clone_files,     \* config files in the clone's working tree
    conf,            \* what parse_bloom_conf returned, and --upstream-devel
    request,         \* the url and version of the last upstream checkout
    meta,            \* the upstream meta data
    tarball,         \* TRUE once export_repository produced the tarball
    last_tag,        \* what get_last_tag_by_date returned
    gbp_version,     \* gbp_major, gbp_minor, gbp_patch
    has_replace,     \* the answers gbp.has_replace() gave, none if not called
    warnings,        \* the version warnings emitted so far
    import_result,   \* the results gbp.import_orig returned, none if not called
    log,             \* the external commands executed so far, in order
    retcode,         \* what import_upstream/main returned, None included
    how,             \* "running", "return", "sysexit" or "exception"
    failure,         \* the reported reason of a failure, "" if none
    exit_status      \* the process exit status, -1 while running

vars == <<pc, args, current_branch, orig_head, os_cwd, tmp_dir, tmp_created,
          still_exists,
          clone_branches, clone_head, clone_files, conf, request, meta,
          tarball, last_tag, gbp_version, has_replace, warnings, import_result,
          log, retcode, how,
          failure, exit_status>>

\* the variables of the original repository and of main
mainVars == <<current_branch, orig_head, os_cwd, tmp_dir, tmp_created,
             still_exists>>
\* the variables of the clone
cloneVars == <<clone_branches, clone_head, clone_files>>
\* the variables of the upstream data
upVars == <<conf, request, meta, tarball>>
\* the variables of the version guard
guardVars == <<last_tag, gbp_version, has_replace, warnings>>
\* the variables of the version guard and of the importer
lateVars == <<guardVars, import_result>>
\* the variables of the result
endVars == <<retcode, how, failure, exit_status>>

Unset == "unset"

\* meta, with what the resolver looked at: the lookups made, the number of
\* packages found and the number of distinct versions they declare
NoMeta == [name |-> <<>>, version |-> <<>>, type |-> Unset,
           searched |-> <<>>, found |-> 0, declared |-> 0]
NoConf == [upstream_type |-> Unset, upstream_branch |-> Unset,
           upstream_devel |-> Unset]
\* the checkout request, with the results of the checkouts made: ok of the
\* development checkout, results of the checkouts of the tagged version
NoRequest == [url |-> <<>>, ver |-> Unset, ok |-> {}, tags |-> <<>>,
              results |-> <<>>]

\* sys.exit(main()): a returned None or 0 is status 0; SystemExit(1), a
\* returned 1 and an uncaught exception are status 1
ExitStatus(h, r) ==
    IF h = "return" /\ r \in {None, "0"} THEN 0 ELSE 1

Init ==
    /\ pc = "get_root"
    /\ args \in [replace : BOOLEAN]
    /\ current_branch = Unset
    /\ orig_head \in StartBranches
    /\ os_cwd = "orig"
    /\ tmp_dir = FALSE
    /\ tmp_created = FALSE
    /\ still_exists = TRUE
    /\ clone_branches = {}
    /\ clone_head = Unset
    /\ clone_files = {}
    /\ conf = NoConf
    /\ request = NoRequest
    /\ meta = NoMeta
    /\ tarball = FALSE
    /\ last_tag = NoTag
    /\ gbp_version = <<>>
    /\ has_replace = {}
    /\ warnings = {}
    /\ import_result = {}
    /\ log = <<>>
    /\ retcode = Unset
    /\ how = "running"
    /\ failure = ""
    /\ exit_status = -1

(***************************************************************************)
(* Ways a statement group ends the run                                     *)
(***************************************************************************)
\* 'return 1' in main before the try block: no finally clause runs
MainReturns1(why) ==
    /\ pc' = "done"
    /\ retcode' = "1"
    /\ how' = "return"
    /\ failure' = why
    /\ exit_status' = ExitStatus("return", "1")

\* a bare 'return' in import_upstream where it reports a failure
ReturnsNone(why) ==
    /\ pc' = "finally"
    /\ retcode' = None
    /\ how' = "return"
    /\ failure' = why
    /\ UNCHANGED exit_status

\* 'return 1' in import_upstream: main's finally clause runs next
Returns1(why) ==
    /\ pc' = "finally"
    /\ retcode' = "1"
    /\ how' = "return"
    /\ failure' = why
    /\ UNCHANGED exit_status

\* sys.exit(1) in a helper: SystemExit unwinds through main's finally clause
SysExit1(why) ==
    /\ pc' = "finally"
    /\ retcode' = "1"
    /\ how' = "sysexit"
    /\ failure' = why
    /\ UNCHANGED exit_status

\* the statement group falls through to the next one
GoOn(next) ==
    /\ pc' = next
    /\ UNCHANGED endVars

(***************************************************************************)
(* main, before the try block                                              *)
(***************************************************************************)
\* main: get_root() == None
GetRoot ==
    /\ pc = "get_root"
    /\ \E root_found \in BOOLEAN :
          IF root_found
          THEN GoOn("get_current_branch")
          ELSE MainReturns1("not_git_repo")
    /\ UNCHANGED <<args, mainVars, cloneVars, upVars, lateVars, log>>

\* the upstream branch not refused
OnUpstreamNever(branch) == FALSE

\* 'if current_branch == "upstream"'
OnUpstream(branch) == branch = "upstream"

\* main: get_current_branch() and the refusal to run on the upstream branch
GetCurrentBranch ==
    /\ pc = "get_current_branch"
    /\ current_branch' = orig_head
    /\ IF OnUpstream(orig_head)
       THEN MainReturns1("on_upstream")
       ELSE GoOn("create_tmp")
    /\ UNCHANGED <<args, orig_head, os_cwd, tmp_dir, tmp_created, still_exists,
                   cloneVars, upVars, lateVars, log>>

\* main: create_temporary_directory() and cwd = os.getcwd()
CreateTmp ==
    /\ pc = "create_tmp"
    /\ tmp_dir' = TRUE
    /\ tmp_created' = TRUE
    /\ GoOn("track_orig")
    /\ UNCHANGED <<args, current_branch, orig_head, os_cwd, still_exists,
                   cloneVars, upVars, lateVars, log>>

(***************************************************************************)
(* import_upstream: the clone and the repository validator                 *)
(***************************************************************************)
\* track_branches(['bloom', 'upstream']) in the original repository; it
\* checks branches out, so HEAD there may be left on one of them
TrackOrig ==
    /\ pc = "track_orig"
    /\ \E head \in {orig_head, "bloom"} : orig_head' = head
    /\ log' = Append(log, "track_orig")
    /\ GoOn("clone")
    /\ UNCHANGED <<args, current_branch, os_cwd, tmp_dir, tmp_created,
                   still_exists, cloneVars, upVars, lateVars>>

\* os.makedirs, os.chdir into the clone directory and the clone itself,
\* whose result is not looked at
Clone ==
    /\ pc = "clone"
    /\ os_cwd' = "clone"
    /\ log' = Append(log, "clone")
    /\ GoOn("track_clone")
    /\ UNCHANGED <<args, current_branch, orig_head, tmp_dir, tmp_created,
                   still_exists, cloneVars, upVars, lateVars>>

\* track_branches(['bloom', 'upstream']) in the clone; afterwards the clone
\* holds some set of local branches
TrackClone ==
    /\ pc = "track_clone"
    /\ \E branches \in SUBSET BranchNames : clone_branches' = branches
    /\ log' = Append(log, "track_clone")
    /\ GoOn("check_for_bloom")
    /\ UNCHANGED <<args, mainVars, clone_head, clone_files, upVars, lateVars>>

\* the config files the release branch may hold
ConfFiles == {{}, {"catkin.conf"}, {"bloom.conf"}}

\* check_for_bloom: is the legacy branch to be migrated?
NeedsMigration(branches) ==
    ~CountPositive(branches, "bloom") /\ CountPositive(branches, "catkin")

\* check_for_bloom: neither branch was found
NeitherBranch(branches) ==
    ~CountPositive(branches, "bloom") /\ ~CountPositive(branches, "catkin")

\* convert_catkin_to_bloom: 'git branch -m catkin bloom'
RenamedBranches(branches) == (branches \ {"catkin"}) \cup {"bloom"}

\* convert_catkin_to_bloom: 'git mv catkin.conf bloom.conf' if catkin.conf exists
RenamedFiles(files) ==
    IF "catkin.conf" \in files
    THEN (files \ {"catkin.conf"}) \cup {"bloom.conf"}
    ELSE files

\* convert_catkin_to_bloom: the commands it runs, given the files of the branch
MigrationCommands(files) ==
    <<"branch_m_catkin_bloom", "checkout_bloom">>
    \o (IF "catkin.conf" \in files THEN <<"mv_catkin_conf">> ELSE <<>>)
    \o (IF "bloom.conf" \in RenamedFiles(files)
        THEN <<"rewrite_section_header", "add_bloom_conf", "commit">>
        ELSE <<>>)

\* the presence of bloom.conf not looked at
ConfMissingNever(tree) == FALSE

\* 'if not os.path.exists(loc)': bloom.conf is not in the working tree
ConfMissing(tree) == "bloom.conf" \notin tree

\* check_for_bloom(os.getcwd()), with convert_catkin_to_bloom and
\* not_a_bloom_release_repo; files are the config files on the branch
CheckForBloom ==
    /\ pc = "check_for_bloom"
    /\ \E files \in ConfFiles :
        IF NeitherBranch(clone_branches)
        THEN /\ SysExit1("not_bloom_repo")
             /\ UNCHANGED <<cloneVars, log>>
        ELSE LET migrate == NeedsMigration(clone_branches)
                 branches == IF migrate THEN RenamedBranches(clone_branches)
                             ELSE clone_branches
                 tree == IF migrate THEN RenamedFiles(files) ELSE files
                 cmds == IF migrate THEN MigrationCommands(files) ELSE <<>>
             IN  /\ clone_branches' = branches
                 /\ IF "bloom" \in branches
                    THEN /\ clone_head' = "bloom"
                         /\ clone_files' = tree
                         /\ log' = log \o cmds \o <<"checkout_bloom">>
                         /\ IF ConfMissing(tree)
                            THEN SysExit1("not_bloom_repo")
                            ELSE GoOn("parse_conf")
                    ELSE \* checkout('bloom') raises CalledProcessError
                         /\ log' = log \o cmds \o <<"checkout_bloom">>
                         /\ SysExit1("not_bloom_repo")
                         /\ UNCHANGED <<clone_head, clone_files>>
    /\ UNCHANGED <<args, mainVars, upVars, lateVars>>

(***************************************************************************)
(* import_upstream: config, upstream checkout, meta data, export           *)
(***************************************************************************)
\* parse_bloom_conf(): the upstream type and the optional upstream branch;
\* devel is args.upstream_devel
ParseConf ==
    /\ pc = "parse_conf"
    /\ \E t \in {"git", "svn"}, b \in {"", "devel"}, devel \in {None, "rel"} :
          conf' = [upstream_type |-> t, upstream_branch |-> b,
                   upstream_devel |-> devel]
    /\ GoOn("upstream_checkout")
    /\ UNCHANGED <<args, mainVars, cloneVars, request, meta, tarball, lateVars,
                   log>>

\* ver: --upstream-devel overrides the configured branch
EffectiveBranch(c) ==
    IF c.upstream_devel # None THEN c.upstream_devel ELSE c.upstream_branch

\* every upstream type given the url and the branch as they are
CheckoutRequestNative(c) ==
    [NoRequest EXCEPT !.url = <<"repo">>, !.ver = EffectiveBranch(c)]

\* the url and version handed to upstream_client.checkout
CheckoutRequest(c) ==
    LET ver == EffectiveBranch(c)
    IN  IF c.upstream_type = "svn"
        THEN [NoRequest EXCEPT
                !.url = IF ver = "" THEN <<"repo", "/trunk">>
                        ELSE <<"repo", "/branches/", ver>>,
                !.ver = ""]
        ELSE [NoRequest EXCEPT !.url = <<"repo">>, !.ver = ver]

\* the result of the checkout not looked at
CheckoutFailedNever(ok) == FALSE

\* 'if not upstream_client.checkout(checkout_url, checkout_ver)'
CheckoutFailed(ok) == ~ok

\* upstream_client.checkout(checkout_url, checkout_ver) and its failure
UpstreamCheckout ==
    /\ pc = "upstream_checkout"
    /\ log' = Append(log, "upstream_checkout")
    /\ \E ok \in BOOLEAN :
          /\ request' = [CheckoutRequest(conf) EXCEPT !.ok = {ok}]
          /\ IF CheckoutFailed(ok)
             THEN Returns1("checkout_failed")
             ELSE GoOn("get_meta")
    /\ UNCHANGED <<args, mainVars, cloneVars, conf, meta, tarball, lateVars>>

\* what find_packages may return: the declared versions of the packages
\* found, in the order packages.values() lists them
PackageSets == UNION { [1..n -> VersionStrings] : n \in {0, 1, 2} }

\* any packages taken to declare one version
EqualVersionsAlways(pkgs) == TRUE

\* verify_equal_package_versions: all packages declare the same version
EqualVersions(pkgs) ==
    \A p, q \in DOMAIN pkgs : pkgs[p] = pkgs[q]

\* [p.name for p in packages.values()]
PackageNames(pkgs) == [i \in DOMAIN pkgs |-> IF i = 1 THEN "p1" ELSE "p2"]

\* the usage error of --not-catkin
MissingNameOrTag(name, tag) == None \in {name, tag}

\* the number of distinct versions the packages found declare
DistinctVersions(pkgs) == Cardinality({ pkgs[i] : i \in DOMAIN pkgs })

\* a single package taken for none
NoPackagesOrOne(pkgs) == Cardinality(DOMAIN pkgs) <= 1

\* 'if packages == {}'
NoPackages(pkgs) == DOMAIN pkgs = {}

\* what get_upstream_meta looked at before it ended
Looked(pkgs, lookups) ==
    [NoMeta EXCEPT !.searched = lookups,
                   !.found = Cardinality(DOMAIN pkgs),
                   !.declared = DistinctVersions(pkgs)]

\* get_upstream_meta(upstream_dir): the meta data it returns and the next
\* step, or its sys.exit(1)
GetUpstreamMeta ==
    \E catkin_pkg \in BOOLEAN :
       IF ~catkin_pkg
       THEN /\ SysExit1("no_catkin_pkg")
            /\ UNCHANGED meta
       ELSE \E pkgs \in PackageSets :
            IF NoPackages(pkgs)
            THEN \E has_rospkg \in BOOLEAN :
                 IF ~has_rospkg
                 THEN /\ SysExit1("no_manifest")
                      /\ meta' = Looked(pkgs, <<"find_packages">>)
                 ELSE \E stack_xml \in BOOLEAN :
                      LET looked == Looked(pkgs, <<"find_packages", "stack.xml">>)
                      IN  IF ~stack_xml
                          THEN /\ SysExit1("no_manifest")
                               /\ meta' = looked
                          ELSE \E complete \in BOOLEAN :
                               IF ~complete
                               THEN \* None in meta.values()
                                    /\ SysExit1("no_meta")
                                    /\ meta' = looked
                               ELSE \E v \in VersionStrings :
                                    /\ meta' = [looked EXCEPT
                                                  !.name = <<"stack">>,
                                                  !.version = v,
                                                  !.type = "stack.xml"]
                                    /\ GoOn("svn_tag")
            ELSE LET looked == Looked(pkgs, <<"find_packages">>)
                 IN  IF ~EqualVersions(pkgs)
                     THEN /\ SysExit1("version_mismatch")
                          /\ meta' = looked
                     ELSE /\ meta' = [looked EXCEPT
                                        !.name = PackageNames(pkgs),
                                        !.version = pkgs[1],
                                        !.type = "package.xml"]
                          /\ GoOn("svn_tag")

\* 'Get upstream meta data': the --not-catkin branch, else get_upstream_meta;
\* not_catkin, name and tag are args.not_catkin, args.name and args.tag, and
\* v is the text of --upstream-tag when it is given
GetMeta ==
    /\ pc = "get_meta"
    /\ \E not_catkin \in BOOLEAN :
       IF not_catkin
       THEN \E name \in {None, "pkg"}, tag \in {None, "given"} :
            IF MissingNameOrTag(name, tag)
            THEN /\ Returns1("usage")
                 /\ UNCHANGED meta
            ELSE \E v \in VersionStrings :
                 /\ meta' = [NoMeta EXCEPT !.name = <<name>>, !.version = v,
                                           !.type = "not_catkin"]
                 /\ GoOn("svn_tag")
       ELSE GetUpstreamMeta
    /\ UNCHANGED <<args, mainVars, cloneVars, conf, request, tarball,
                   lateVars, log>>

\* the urls of the tagged version an svn upstream is checked out from: the
\* second one is tried if the first checkout failed
SvnTagUrls(ok1, ver, name) ==
    IF ok1 THEN << <<"repo", "/tags/", ver>> >>
    ELSE << <<"repo", "/tags/", ver>>, <<"repo", "/tags/", name, "-", ver>> >>

\* the results of the checkouts of the tagged version that were made
SvnTagResults(ok1, ok2) == IF ok1 THEN <<TRUE>> ELSE <<FALSE, ok2>>

\* 'Change upstream_client for svn': the checkout of the tagged version
SvnTagCheckout ==
    /\ pc = "svn_tag"
    /\ IF conf.upstream_type = "svn"
       THEN \E ok1 \in BOOLEAN, ok2 \in BOOLEAN :
            /\ request' = [request EXCEPT
                             !.tags = SvnTagUrls(ok1, meta.version, meta.name[1]),
                             !.results = SvnTagResults(ok1, ok2)]
            /\ IF ok1 \/ ok2 THEN GoOn("export") ELSE Returns1("svn_tag_failed")
       ELSE /\ GoOn("export")
            /\ UNCHANGED request
    /\ UNCHANGED <<args, mainVars, cloneVars, conf, meta, tarball, lateVars,
                   log>>

\* the result of the export not looked at
ExportFailedNever(exported) == FALSE

\* 'if not upstream_client.export_repository(export_version, tarball_path)'
ExportFailed(exported) == ~exported

\* upstream_client.export_repository(export_version, tarball_path).
\* upstream_repo, upstream_type, the urls and the name are not read after
\* the export: the model keeps the version only
Export ==
    /\ pc = "export"
    /\ log' = Append(log, "export_repository")
    /\ \E exported \in BOOLEAN :
          /\ tarball' = exported
          /\ IF ExportFailed(exported)
             THEN Returns1("export_failed")
             ELSE GoOn("guard")
    /\ conf' = NoConf
    /\ request' = NoRequest
    /\ meta' = [NoMeta EXCEPT !.version = meta.version]
    /\ UNCHANGED <<args, mainVars, cloneVars, lateVars>>

(***************************************************************************)
(* import_upstream: the version guard                                      *)
(***************************************************************************)
\* version = meta['version']
version == meta.version

\* full_version_strict < last_tag_version_strict
RegressionCond(new, last) == StrictLess(new, last)

\* the comparison with its operands swapped
ReplaceCondSwapped(new, last) == StrictLeq(last, new)

\* full_version_strict <= last_tag_version_strict
ReplaceCond(new, last) == StrictLeq(new, last)

\* an exception leaves import_upstream: main's finally clause runs next
Raises(why) ==
    /\ pc' = "finally"
    /\ how' = "exception"
    /\ failure' = why
    /\ UNCHANGED <<retcode, exit_status>>

\* the version checks made whether or not there is a last tag
VersionCheckedAlways(tag) == TRUE

\* 'if last_tag == "": ... else:' the version checks are made in the else branch
VersionChecked(tag) == tag # NoTag

\* --replace taken as supported whatever gbp.has_replace() answers
ReplaceRefusedNever(supported) == FALSE

\* 'if not gbp.has_replace()'
ReplaceRefused(supported) == ~supported

\* gbp_major, gbp_minor, gbp_patch: from the last tag, or from the new version
GbpVersion(tag, ver) ==
    IF tag = NoTag THEN segment_version(ver)
    ELSE get_versions_from_upstream_tag(tag)

\* 'Get the gbp version elements from either the last tag or the default',
\* up to the decision on the tag; supported is what gbp.has_replace() answers
Guard ==
    /\ pc = "guard"
    /\ \E tag \in {NoTag} \cup TagVersions :
        /\ last_tag' = tag
        /\ gbp_version' = GbpVersion(tag, version)
        /\ IF ~VersionChecked(tag)
           THEN /\ GoOn("upstream_branch")
                /\ UNCHANGED <<warnings, has_replace>>
           ELSE IF ~WellFormed(version)
           THEN \* StrictVersion(version) raises ValueError
                /\ Raises("ValueError")
                /\ UNCHANGED <<warnings, has_replace>>
           ELSE LET new == StrictVersion(version)
                    \* last_tag_version = '.'.join([gbp_major, gbp_minor, gbp_patch])
                    last == StrictVersion(GbpVersion(tag, version))
                    regress == IF RegressionCond(new, last)
                               THEN {"regression"} ELSE {}
                IN  IF ReplaceCond(new, last)
                    THEN IF args.replace
                         THEN \E supported \in BOOLEAN :
                              /\ has_replace' = {supported}
                              /\ IF ReplaceRefused(supported)
                                 THEN /\ warnings' = warnings \cup regress
                                      /\ Returns1("replace_unsupported")
                                 ELSE /\ warnings' = warnings \cup regress
                                                     \cup {"replace"}
                                      /\ GoOn("tag_delete")
                         ELSE /\ warnings' = warnings \cup regress
                                             \cup {"collision"}
                              /\ GoOn("upstream_branch")
                              /\ UNCHANGED has_replace
                    ELSE /\ warnings' = warnings \cup regress
                         /\ GoOn("upstream_branch")
                         /\ UNCHANGED has_replace
    /\ log' = Append(log, "get_last_tag_by_date")
    /\ UNCHANGED <<args, mainVars, cloneVars, upVars, import_result>>

\* execute_command('git tag -d <last_tag>')
TagDelete ==
    /\ pc = "tag_delete"
    /\ log' = Append(log, "tag_d")
    /\ GoOn("push_tag_delete")
    /\ UNCHANGED <<args, mainVars, cloneVars, upVars, lateVars>>

\* execute_command('git push origin :refs/tags/<last_tag>')
PushTagDelete ==
    /\ pc = "push_tag_delete"
    /\ log' = Append(log, "push_tag_delete")
    /\ GoOn("upstream_branch")
    /\ UNCHANGED <<args, mainVars, cloneVars, upVars, lateVars>>

(***************************************************************************)
(* import_upstream: the importer                                           *)
(***************************************************************************)
\* 'Look for upstream branch': create_initial_upstream_branch if none shows
UpstreamBranch ==
    /\ pc = "upstream_branch"
    /\ IF ~CountPositive(clone_branches, "upstream")
       THEN /\ clone_branches' = clone_branches \cup {"upstream"}
            /\ clone_head' = "upstream"
            /\ log' = Append(log, "create_upstream_branch")
       ELSE UNCHANGED <<clone_branches, clone_head, log>>
    /\ GoOn("update_master")
    /\ UNCHANGED <<args, mainVars, clone_files, upVars, lateVars>>

\* bloom_repo.update('master')
UpdateMaster ==
    /\ pc = "update_master"
    /\ clone_head' = "master"
    /\ log' = Append(log, "update_master")
    /\ GoOn("import_orig")
    /\ UNCHANGED <<args, mainVars, clone_branches, clone_files, upVars,
                   lateVars>>

\* only a negative result taken for a failure
ImportFailedNegative(result) == result < 0

\* 'if gbp.import_orig(...)': a truthy result is a failure
ImportFailed(result) == result # 0

\* gbp.import_orig(tarball, interactive, merge) and the return on its failure
ImportOrig ==
    /\ pc = "import_orig"
    /\ log' = Append(log, "import_orig")
    /\ \E result \in {0, 1} :
          /\ import_result' = {result}
          /\ IF ImportFailed(result)
             THEN Returns1("import_failed")
             ELSE GoOn("push_all")
    /\ UNCHANGED <<args, mainVars, cloneVars, upVars, guardVars>>

\* execute_command('git push --all -f')
PushAll ==
    /\ pc = "push_all"
    /\ log' = Append(log, "push_all")
    /\ GoOn("push_tags")
    /\ UNCHANGED <<args, mainVars, cloneVars, upVars, lateVars>>

\* execute_command('git push --tags'); import_upstream then returns None
PushTags ==
    /\ pc = "push_tags"
    /\ log' = Append(log, "push_tags")
    /\ pc' = "finally"
    /\ retcode' = None
    /\ how' = "return"
    /\ UNCHANGED <<failure, exit_status>>
    /\ UNCHANGED <<args, mainVars, cloneVars, upVars, lateVars>>

\* the statement groups whose git command may raise CalledProcessError
RaisingSteps ==
    {"track_orig", "clone", "track_clone", "check_for_bloom", "parse_conf",
     "tag_delete", "push_tag_delete", "upstream_branch", "update_master",
     "push_all", "push_tags"}

\* a command of import_upstream raises: the exception leaves import_upstream
CommandRaises ==
    /\ pc \in RaisingSteps
    /\ Raises("CalledProcessError")
    /\ UNCHANGED <<args, mainVars, cloneVars, upVars, lateVars, log>>

(***************************************************************************)
(* main: the finally clause                                                *)
(***************************************************************************)
\* the directory left in place
RmTreeSkipped(exists) == exists

\* shutil.rmtree(tmp_dir): the directory is gone
RmTree(exists) == FALSE

\* the branch not checked out again
RestoredHeadNever(head, branch, exists) == head

\* checkout(current_branch, directory=cwd) if the branch is set and exists
RestoredHead(head, branch, exists) ==
    IF branch # "" /\ exists THEN branch ELSE head

\* main's finally clause, and the exit of the process
Finally ==
    /\ pc = "finally"
    /\ os_cwd' = "orig"
    /\ tmp_dir' = RmTree(tmp_dir)
    /\ \E exists \in BOOLEAN :
          /\ still_exists' = exists
          /\ orig_head' = RestoredHead(orig_head, current_branch, exists)
    /\ pc' = "done"
    /\ exit_status' = ExitStatus(how, retcode)
    /\ UNCHANGED <<args, current_branch, tmp_created, cloneVars, upVars,
                   lateVars, log, retcode, how, failure>>

(***************************************************************************)
(* The specification                                                       *)
(***************************************************************************)
Next ==
    \/ GetRoot
    \/ GetCurrentBranch
    \/ CreateTmp
    \/ TrackOrig
    \/ Clone
    \/ TrackClone
    \/ CheckForBloom
    \/ ParseConf
    \/ UpstreamCheckout
    \/ GetMeta
    \/ SvnTagCheckout
    \/ Export
    \/ Guard
    \/ TagDelete
    \/ PushTagDelete
    \/ UpstreamBranch
    \/ UpdateMaster
    \/ ImportOrig
    \/ PushAll
    \/ PushTags
    \/ CommandRaises
    \/ Finally

Spec == Init /\ [][Next]_vars

(***************************************************************************)
(* Vocabulary of the properties                                            *)
(***************************************************************************)
\* the command was executed in this run
Executed(cmd) == \E i \in DOMAIN log : log[i] = cmd

\* the first place of an executed command in the log
Position(cmd) == CHOOSE i \in DOMAIN log : log[i] = cmd /\ \A j \in 1..(i - 1) : log[j] # cmd

\* both commands were executed, the first one earlier
Before(a, b) == Executed(a) /\ Executed(b) /\ Position(a) < Position(b)

\* the version guard has run
GuardRan == Executed("get_last_tag_by_date")

\* the version guard found a prior tag
PriorTag == GuardRan /\ last_tag # NoTag

\* the version guard compared two well-formed versions
Compared == PriorTag /\ WellFormed(version)

\* the versions the guard compared
NewVersion == StrictVersion(version)
LastVersion == StrictVersion(get_versions_from_upstream_tag(last_tag))

\* a deletion of the last tag was executed or is about to be
DeletionSteps == {"tag_delete", "push_tag_delete"}
TagDeletion ==
    Executed("tag_d") \/ Executed("push_tag_delete") \/ pc \in DeletionSteps

\* the statement groups of the importer, after the version guard
ImporterSteps ==
    {"upstream_branch", "update_master", "import_orig", "push_all", "push_tags"}

\* the guard let the run go on: the run is in the importer, or it ended in or
\* after gbp.import_orig, or a later command raised
WentOn ==
    /\ failure \notin {"replace_unsupported", "ValueError"}
    /\ how = "running" => pc \in ImporterSteps \cup DeletionSteps
    /\ how \in {"return", "sysexit"} => Executed("import_orig")

(***************************************************************************)
(* C1                                                                      *)
(***************************************************************************)
\* C1: with a prior tag and well-formed versions the guard takes the decision
\* of the table: new > last proceeds with no warning and no tag deleted;
\* new < last proceeds with the regression warning only; new == last without
\* --replace gives the collision warning and the run continues; new == last
\* with --replace and has_replace() true gives the replacement
C1_DecisionTable ==
    Compared =>
        /\ StrictLess(LastVersion, NewVersion) =>
              warnings = {} /\ ~TagDeletion /\ WentOn
        /\ StrictLess(NewVersion, LastVersion) =>
              warnings = {"regression"} /\ ~TagDeletion /\ WentOn
        /\ (NewVersion = LastVersion /\ ~args.replace) =>
              warnings = {"collision"} /\ ~TagDeletion /\ WentOn
        /\ (NewVersion = LastVersion /\ args.replace /\ has_replace = {TRUE}) =>
              /\ warnings = {"replace"}
              /\ how # "exception" => TagDeletion
              /\ WentOn

(***************************************************************************)
(* C2                                                                      *)
(***************************************************************************)
\* C2: with a prior tag, new < last (whatever --replace and has_replace()
\* are) and new == last without --replace never end the run in the guard
C2_NonFatalContinues ==
    (Compared /\ (\/ StrictLess(NewVersion, LastVersion)
                  \/ NewVersion = LastVersion /\ ~args.replace)) => WentOn

(***************************************************************************)
(* C3                                                                      *)
(***************************************************************************)
\* the accepted collision of C3
AcceptedCollision ==
    /\ Compared
    /\ NewVersion = LastVersion
    /\ args.replace
    /\ has_replace = {TRUE}

\* C3: the last tag is deleted, locally and on the remote, if and only if
\* there is a prior tag, new == last, --replace is set and has_replace() is
\* true; both deletions then precede gbp.import_orig
C3_DeletionIffAcceptedCollision ==
    /\ TagDeletion => AcceptedCollision
    /\ (AcceptedCollision /\ Executed("import_orig")) =>
          /\ Before("tag_d", "push_tag_delete")
          /\ Before("push_tag_delete", "import_orig")

(***************************************************************************)
(* C4                                                                      *)
(***************************************************************************)
\* C4: if there is no prior tag the guard emits no warning, deletes no tag,
\* does not ask has_replace() and does not end the run, whatever the new
\* version and --replace are
C4_NoTagNeverBlocks ==
    (GuardRan /\ last_tag = NoTag) =>
        /\ warnings = {}
        /\ ~TagDeletion
        /\ has_replace = {}
        /\ WentOn

\* a run with --replace and a version StrictVersion rejects that reached
\* gbp.import_orig with no prior tag
C4_Witness ==
    /\ GuardRan
    /\ last_tag = NoTag
    /\ args.replace
    /\ ~WellFormed(version)
    /\ Executed("import_orig")

(***************************************************************************)
(* C5                                                                      *)
(***************************************************************************)
\* C5: the usage error of --not-catkin is reported with status 1 before any
\* clone, branch tracking, checkout of the release branch or checkout of the
\* upstream repository
C5_UsageErrorBeforeAccess ==
    failure = "usage" =>
        /\ retcode = "1"
        /\ ~Executed("track_orig")
        /\ ~Executed("clone")
        /\ ~Executed("track_clone")
        /\ ~Executed("checkout_bloom")
        /\ ~Executed("upstream_checkout")

ExternalToolFailed ==
    \/ failure \in {"checkout_failed", "svn_tag_failed", "export_failed"}
    \/ import_result = {1}

\* C7 as stated: a run that ends on an external tool's failure has executed
\* no push of any kind to origin
C7_NoPushAtAll ==
    ExternalToolFailed =>
        /\ ~Executed("push_all")
        /\ ~Executed("push_tags")
        /\ ~Executed("push_tag_delete")

\* C7, amended: a run that ends on an external tool's failure has executed
\* neither 'git push --all -f' nor 'git push --tags'; the one push it may
\* have executed is the deletion of the last tag on origin, and only when
\* gbp.import_orig failed after the guard accepted a replacement (--replace,
\* has_replace() true, new <= last)
C7_NoBranchOrTagPush ==
    ExternalToolFailed =>
        /\ ~Executed("push_all")
        /\ ~Executed("push_tags")
        /\ Executed("push_tag_delete") =>
              /\ import_result = {1}
              /\ Compared
              /\ StrictLeq(NewVersion, LastVersion)
              /\ args.replace
              /\ has_replace = {TRUE}

\* a finished run whose import failed after the remote tag was deleted
C7_Witness ==
    /\ pc = "done"
    /\ import_result = {1}
    /\ Before("push_tag_delete", "import_orig")

(***************************************************************************)
(* C8                                                                      *)
(***************************************************************************)
\* C8: when main has ended, the temporary directory it created is gone
C8_TmpDirRemoved ==
    (pc = "done" /\ tmp_created) => ~tmp_dir

\* a run that created the directory and ended by sys.exit(1) in a helper
C8_Witness ==
    /\ pc = "done"
    /\ tmp_created
    /\ how = "sysexit"
    /\ ~tmp_dir

(***************************************************************************)
(* C9                                                                      *)
(***************************************************************************)
\* C9: when a run that entered import_upstream has ended, the working
\* directory is the original one, and the branch found before the run, if it
\* still exists, is checked out in the original repository
C9_Restored ==
    (pc = "done" /\ tmp_created) =>
        /\ os_cwd = "orig"
        /\ (current_branch # "" /\ still_exists) => orig_head = current_branch

\* a run that changed into the clone and ended by an exception
C9_Witness ==
    /\ pc = "done"
    /\ Executed("clone")
    /\ how = "exception"
    /\ current_branch = "master"
    /\ still_exists
    /\ orig_head = "master"
    /\ os_cwd = "orig"

(***************************************************************************)
(* C10                                                                     *)
(***************************************************************************)
\* the run imported and pushed
Succeeded ==
    /\ how = "return"
    /\ import_result = {0}
    /\ Executed("push_all")
    /\ Executed("push_tags")

\* the failures main reports with status 1
ReportedFailures ==
    {"not_git_repo", "on_upstream", "not_bloom_repo", "checkout_failed",
     "svn_tag_failed", "export_failed", "version_mismatch", "usage",
     "import_failed"}

\* C10: the exit status is 0 after a successful run and 1 after a validation
\* failure, a fetch failure, a metadata conflict, a usage error or a nonzero
\* result of gbp.import_orig
C10_ExitCodes ==
    pc = "done" =>
        /\ Succeeded => exit_status = 0
        /\ (failure \in ReportedFailures \/ import_result = {1}) =>
              exit_status = 1

\* a successful run, ended with status 0
C10_Witness ==
    /\ pc = "done"
    /\ Succeeded
    /\ exit_status = 0

(***************************************************************************)
(* Vocabulary of the later claims                                          *)
(***************************************************************************)
\* the commands that delete a tag, import or push
DestructiveCommands ==
    {"tag_d", "push_tag_delete", "import_orig", "push_all", "push_tags"}

\* no tag was deleted, nothing was imported, nothing was pushed
NothingDestructive ==
    /\ \A cmd \in DestructiveCommands : ~Executed(cmd)
    /\ pc \notin DeletionSteps

\* the run has ended, or is in main's finally clause
Ended == pc \in {"finally", "done"}

\* the process exits with status 1 when it has ended
Status1 == pc = "done" => exit_status = 1

(***************************************************************************)
(* C11                                                                     *)
(***************************************************************************)
\* C11: if the packages found do not all declare the same version, the run
\* ends in get_upstream_meta by sys.exit(1), before export_repository, with
\* no tarball, no tag deleted, no import and no push
C11_MismatchFailsBeforeExport ==
    meta.declared > 1 =>
        /\ Ended
        /\ failure = "version_mismatch"
        /\ how = "sysexit" /\ retcode = "1"
        /\ Status1
        /\ ~Executed("export_repository")
        /\ ~tarball
        /\ NothingDestructive

\* a finished run that found two packages declaring different versions
C11_Witness ==
    /\ pc = "done"
    /\ meta.found = 2
    /\ meta.declared = 2
    /\ failure = "version_mismatch"
    /\ exit_status = 1

(***************************************************************************)
(* C12                                                                     *)
(***************************************************************************)
\* --replace was asked for an equal version and has_replace() answered false
ReplaceUnsupported ==
    /\ Compared
    /\ NewVersion = LastVersion
    /\ args.replace
    /\ has_replace = {FALSE}

\* C12: with a prior tag, new == last, --replace and has_replace() false the
\* run returns 1 and has deleted no tag, not called gbp.import_orig and not
\* pushed
C12_UnsupportedReplaceFails ==
    ReplaceUnsupported =>
        /\ Ended
        /\ failure = "replace_unsupported"
        /\ how = "return" /\ retcode = "1"
        /\ Status1
        /\ NothingDestructive

\* a finished run refused for the missing replace support
C12_Witness ==
    /\ pc = "done"
    /\ ReplaceUnsupported
    /\ exit_status = 1

(***************************************************************************)
(* C13                                                                     *)
(***************************************************************************)
\* the development checkout was requested and its inputs are still known
CheckoutRequested == conf # NoConf /\ request # NoRequest

\* C13: for svn the development checkout is <repo>/trunk with no effective
\* branch and <repo>/branches/<branch> otherwise, with an empty version; the
\* tagged version is checked out from <repo>/tags/<version>, from
\* <repo>/tags/<name>-<version> only if that failed, and the run returns 1
\* only if both failed; any other type gets the repo and the branch as they
\* are and no checkout of a tag
C13_SvnPathMapping ==
    CheckoutRequested =>
        LET branch == IF conf.upstream_devel # None THEN conf.upstream_devel
                      ELSE conf.upstream_branch
            tries == request.results
        IN  IF conf.upstream_type = "svn"
            THEN /\ request.ver = ""
                 /\ branch = "" => request.url = <<"repo", "/trunk">>
                 /\ branch # "" => request.url = <<"repo", "/branches/", branch>>
                 /\ Len(request.tags) = Len(tries)
                 /\ Len(tries) <= 2
                 /\ Len(tries) >= 1 =>
                       request.tags[1] = <<"repo", "/tags/", meta.version>>
                 /\ Len(tries) = 1 => tries[1]
                 /\ Len(tries) = 2 =>
                       /\ ~tries[1]
                       /\ request.tags[2] =
                            <<"repo", "/tags/", meta.name[1], "-", meta.version>>
                 /\ failure = "svn_tag_failed" <=>
                       (Len(tries) = 2 /\ ~tries[2])
                 /\ failure = "svn_tag_failed" =>
                       how = "return" /\ retcode = "1" /\ Status1
                 /\ pc = "export" => Len(tries) >= 1
            ELSE /\ request.url = <<"repo">>
                 /\ request.ver = branch
                 /\ request.tags = <<>>
                 /\ tries = <<>>
                 /\ failure # "svn_tag_failed"

\* an svn upstream with no branch whose tagged version was found at the
\* second url, about to be exported
C13_Witness ==
    /\ pc = "export"
    /\ conf.upstream_type = "svn"
    /\ conf.upstream_devel = None
    /\ conf.upstream_branch = ""
    /\ request.url = <<"repo", "/trunk">>
    /\ request.results = <<FALSE, TRUE>>

(***************************************************************************)
(* C14                                                                     *)
(***************************************************************************)
\* check_for_bloom has been left, by its return, sys.exit or an exception
ValidatorLeft == Executed("track_clone") /\ pc # "check_for_bloom"

\* C14: when check_for_bloom returns, the bloom branch is checked out in the
\* clone and bloom.conf is there; without a bloom branch to check out (no
\* bloom and no catkin branch included) or without bloom.conf the run ends
\* with status 1 before the config is read and before any upstream checkout,
\* export, tag deletion, import or push
C14_ValidatorPostcondition ==
    /\ pc = "parse_conf" =>
          /\ "bloom" \in clone_branches
          /\ clone_head = "bloom"
          /\ "bloom.conf" \in clone_files
    /\ (ValidatorLeft /\ ("bloom" \notin clone_branches
                          \/ "bloom.conf" \notin clone_files)) =>
          /\ Ended
          /\ how \in {"sysexit", "exception"}
          /\ how = "sysexit" => failure = "not_bloom_repo" /\ retcode = "1"
          /\ Status1
          /\ conf = NoConf
          /\ request = NoRequest
          /\ ~Executed("upstream_checkout")
          /\ ~Executed("export_repository")
          /\ NothingDestructive

\* a finished run whose bloom branch was checked out and held no bloom.conf
C14_Witness ==
    /\ pc = "done"
    /\ clone_head = "bloom"
    /\ "bloom.conf" \notin clone_files
    /\ failure = "not_bloom_repo"
    /\ exit_status = 1

(***************************************************************************)
(* C15                                                                     *)
(***************************************************************************)
\* C15: outside a git repository, or on the upstream branch, main returns 1
\* with no temporary directory created, the working directory and the
\* checked out branch as they were, and no command executed
C15_EarlyFailuresTouchNothing ==
    /\ failure \in {"not_git_repo", "on_upstream"} =>
          /\ pc = "done"
          /\ how = "return" /\ retcode = "1"
          /\ exit_status = 1
          /\ ~tmp_created /\ ~tmp_dir
          /\ os_cwd = "orig"
          /\ log = <<>>
          /\ clone_branches = {} /\ clone_head = Unset
          /\ NothingDestructive
    /\ failure = "on_upstream" => orig_head = "upstream"
    /\ current_branch = "upstream" => failure = "on_upstream"

\* a run refused on the upstream branch
C15_Witness ==
    /\ pc = "done"
    /\ current_branch = "upstream"
    /\ failure = "on_upstream"
    /\ exit_status = 1

(***************************************************************************)
(* C16                                                                     *)
(***************************************************************************)
\* C16: if the checkout of the development url fails, import_upstream
\* returns 1, it does not raise, and no meta data is resolved, nothing is
\* exported, no tag is deleted, nothing is imported or pushed
C16_CheckoutFailureAborts ==
    request.ok = {FALSE} =>
        /\ Ended
        /\ failure = "checkout_failed"
        /\ how = "return" /\ retcode = "1"
        /\ Status1
        /\ meta = NoMeta
        /\ ~Executed("export_repository")
        /\ ~tarball
        /\ NothingDestructive

\* a finished run whose upstream checkout failed
C16_Witness ==
    /\ pc = "done"
    /\ request.ok = {FALSE}
    /\ request.url # <<>>
    /\ exit_status = 1

(***************************************************************************)
(* C17                                                                     *)
(***************************************************************************)
\* the commands of convert_catkin_to_bloom that no other code executes
MigrationSteps ==
    {"branch_m_catkin_bloom", "mv_catkin_conf", "rewrite_section_header",
     "add_bloom_conf", "commit"}

\* C17: whenever check_for_bloom runs to its end on a set of branches with
\* no branch named bloom and a branch named catkin, it renames the branch,
\* renames catkin.conf if it is there, and rewrites and commits bloom.conf
\* if it is there; on a set with a branch named bloom it executes no
\* migration step
C17_MigrationTrigger ==
    [][(pc = "check_for_bloom" /\ how' # "exception") =>
          /\ ("bloom" \notin clone_branches /\ "catkin" \in clone_branches) =>
                /\ Executed("branch_m_catkin_bloom")'
                /\ "bloom" \in clone_branches'
                /\ "catkin" \notin clone_branches'
                /\ "catkin.conf" \notin clone_files'
                /\ "bloom.conf" \in clone_files' =>
                      /\ Executed("rewrite_section_header")'
                      /\ Before("rewrite_section_header", "commit")'
          /\ "bloom" \in clone_branches =>
                /\ \A cmd \in MigrationSteps : ~Executed(cmd)'
                /\ clone_branches' = clone_branches
      ]_vars

(***************************************************************************)
(* C18                                                                     *)
(***************************************************************************)
\* C18: when gbp.import_orig is invoked the clone has a branch named
\* upstream, created beforehand if the clone had none
C18_UpstreamBranchAtImport ==
    (pc = "import_orig" \/ Executed("import_orig")) =>
        "upstream" \in clone_branches

(***************************************************************************)
(* C19                                                                     *)
(***************************************************************************)
\* get_upstream_meta looked for stack.xml
StackConsulted ==
    \E i \in DOMAIN meta.searched : meta.searched[i] = "stack.xml"

\* C19: meta data given with --not-catkin is the given name and version and
\* nothing is searched; otherwise the packages are searched first, and if
\* any is found the names are theirs and the version is their one version;
\* stack.xml is looked for only if no package was found, and gives its one
\* name and version; with neither the run ends with status 1
C19_ResolverPrecedence ==
    /\ meta.type = "not_catkin" =>
          /\ meta.searched = <<>>
          /\ meta.name = <<"pkg">>
          /\ meta.version \in VersionStrings
    /\ meta.searched # <<>> => meta.searched[1] = "find_packages"
    /\ StackConsulted => meta.found = 0
    /\ meta.type = "package.xml" =>
          /\ meta.searched = <<"find_packages">>
          /\ meta.found >= 1
          /\ Len(meta.name) = meta.found
          /\ meta.declared = 1
          /\ meta.version \in VersionStrings
    /\ meta.type = "stack.xml" =>
          /\ meta.searched = <<"find_packages", "stack.xml">>
          /\ meta.name = <<"stack">>
          /\ meta.version \in VersionStrings
    /\ (meta.searched # <<>> /\ meta.found = 0 /\ meta.type = Unset) =>
          /\ Ended
          /\ failure \in {"no_manifest", "no_meta"}
          /\ how = "sysexit" /\ retcode = "1"
          /\ Status1
          /\ ~Executed("export_repository")

\* a run whose meta data came from stack.xml, no package being found
C19_Witness ==
    /\ pc = "export"
    /\ meta.type = "stack.xml"
    /\ meta.found = 0
    /\ StackConsulted

(***************************************************************************)
(* C20                                                                     *)
(***************************************************************************)
\* a tag deletion, the import or a push was executed or is about to be
SomethingDestructive ==
    \/ \E cmd \in DestructiveCommands : Executed(cmd)
    \/ pc \in DeletionSteps \cup {"import_orig", "push_all", "push_tags"}

\* the steps that come before the destructive ones
EarlierSteps == {"checkout_bloom", "upstream_checkout", "export_repository"}

\* C20: a tag is deleted, the import is called and the pushes are made only
\* after the validation, the upstream checkout, the meta data and the export
\* succeeded; a run that ends before the version guard has deleted no tag,
\* imported nothing and pushed nothing
C20_DestructiveStepsLast ==
    /\ SomethingDestructive =>
          /\ "bloom.conf" \in clone_files
          /\ meta.version \in VersionStrings
          /\ tarball
          /\ GuardRan
          /\ \A early \in EarlierSteps :
                /\ Before(early, "get_last_tag_by_date")
                /\ \A cmd \in DestructiveCommands :
                      Executed(cmd) => Before(early, cmd)
    /\ (Ended /\ ~GuardRan) => NothingDestructive

\* a finished run that replaced a tag, imported and pushed
C20_Witness ==
    /\ pc = "done"
    /\ tarball
    /\ Before("export_repository", "tag_d")
    /\ Before("push_tag_delete", "import_orig")
    /\ Executed("push_tags")

====
